---------------------------- MODULE Spec2Model ----------------------------
(***************************************************************************)
(* A model of the two programs of the repository.                          *)
(*                                                                         *)
(*  gial.py  the pipeline driver (main) and its background reporter thread *)
(*           (status_reporter), which share the dictionary pipeline_status.*)
(*           Specification Spec: every interleaving of the two threads at  *)
(*           the granularity of one read or write of the shared dictionary,*)
(*           one sleep, one collaborator call, one report line.            *)
(*  pipi.py  AppState (reset, check_and_generate_report) and the loss      *)
(*           chart of generate_report.  Specifications AppSpec (one cycle  *)
(*           of main), EpochSpec (one AppState over any number of          *)
(*           reports) and ChartSpec (the chart of any history).            *)
(*                                                                         *)
(* time.sleep(d) suspends for at least d: "the suspension time may be      *)
(* longer than requested by an arbitrary amount" (Python's documentation). *)
(* The reporter's one-unit sleep and main's two-unit grace sleep count     *)
(* their remaining units down as time passes (Tick) and may return once    *)
(* none is left; no thread speed is assumed.  Real numbers are fixed-point *)
(* integers: a sampled sleep_duration is counted in 1/Scale units, a loss  *)
(* in 1/LossScale.                                                         *)
(***************************************************************************)
EXTENDS Integers, Sequences, FiniteSets, TLC

VARIABLES
    \* ---- gial.py ----
    pipeline_status,   \* the shared dictionary: phase, running, start_time
    mpc,               \* position of main
    rpc,               \* position of status_reporter
    sleep_duration,    \* status_reporter's local, in 1/Scale units
    slept,             \* one-unit sleeps done in the current wait loop
    broke,             \* the wait loop was left by its break (line 35)
    r_nap,             \* units left of the reporter's time.sleep(1)
    shown_phase,       \* the phase label shown by the report under way,
                       \* "none" outside lines 47-49
    m_nap,             \* units left of main's time.sleep(2)
    failed,            \* which collaborator failure main handled, or "none"
    cleanup,           \* outcome of os.remove: "none", "ok", "warn"
    script_invoked,    \* subprocess.run was called
    success_logged,    \* the FINISHED SUCCESSFULLY line was logged
    shutdowns,         \* times the finally block wrote running = False
    \* ---- pipi.py ----
    now,               \* time.time(), in whole seconds since the reset
    last_report_time,  \* AppState fields
    next_report_delay,
    training_loss,     \* in 1/LossScale units
    loss_history,
    epoch,
    data_processed_gb,
    pushed,            \* the samples appended to loss_history since reset
    bars,              \* bar lengths of the chart rendered last
    shown_loss,        \* the "Current Loss" of the report printed last
    last_call          \* outcome of the check called last: "fired" or
                       \* "skipped"; "none" once time has passed since

gialVars == <<pipeline_status, mpc, rpc, sleep_duration, slept, broke, r_nap,
              shown_phase, m_nap, failed, cleanup, script_invoked,
              success_logged,
              shutdowns>>

appVars == <<now, last_report_time, next_report_delay, training_loss,
             loss_history, epoch, data_processed_gb, pushed, bars,
             shown_loss, last_call>>

\* The fields of AppState.
appFields == <<last_report_time, next_report_delay, training_loss,
               loss_history, epoch, data_processed_gb>>

vars == <<gialVars, appVars>>

----------------------------------------------------------------------------
(* Bounds and program constants                                            *)

\* sleep_duration is a float; it is modelled with Scale steps per unit.
Scale == 2

\* random.uniform(10, 20)
SleepLow == 10
SleepHigh == 20

\* gial.py: time.sleep(1) of the wait loop, time.sleep(2) of the finally block.
SleepUnit == 1
GraceUnits == 2

\* A loss is a float; it is modelled with LossScale steps per unit.
LossScale == 100

\* time.time() is followed up to MaxTime seconds after the reset.
MaxTime == 160

\* The chart is checked on every history of samples 0 .. MaxSample.
MaxSample == 3

\* EpochSpec follows one AppState until its epoch is MaxEpoch, and counts
\* data_processed_gb up to MaxData.
MaxEpoch == 21
MaxData == 400

\* pipi.py, AppState.reset: random.randint(15, 30), random.uniform(2.8, 3.5)
\* (in tenths), and the length of loss_history.
FirstDelayLow == 15
FirstDelayHigh == 30
InitLossLowTenths == 28
InitLossHighTenths == 35
Capacity == 5

\* pipi.py, check_and_generate_report: random.randint(50, 200),
\* random.randint(25, 50), random.uniform(0.88, 0.97) (in hundredths), the
\* floor 0.05 (in hundredths), random.uniform(1.0, 1.5) (in tenths).
DataLow == 50
DataHigh == 200
DelayLow == 25
DelayHigh == 50
DecayLowPct == 88
DecayHighPct == 97
FloorPct == 5
ResampleLowTenths == 10
ResampleHighTenths == 15

\* pipi.py, main: time.sleep(5) between two calls of the check.
PollInterval == 5

\* pipi.py, generate_report: chart_width and the closing time.sleep(2).
chart_width == 40
ReportPause == 2

\* A float given in tenths or in hundredths, in 1/LossScale units.
FromTenths(t) == (t * LossScale) \div 10
FromPct(c) == (c * LossScale) \div 100

----------------------------------------------------------------------------
(* gial.py: labels                                                         *)

NotStarted     == "Not Started"
Initialization == "Initialization"
EnvSetup       == "Environment Setup and Pre-computation"
CoreExec       == "Core Process Execution: 'pipi.py'"
Finalizing     == "Finalizing and Cleaning Up Workspace"

PhaseLabels == {NotStarted, Initialization, EnvSetup, CoreExec, Finalizing}

\* The labels in the order of the lines that assign them (12, 63, 70, 94,
\* 143).
PhaseOrder == <<NotStarted, Initialization, EnvSetup, CoreExec, Finalizing>>

\* The six log lines of one report, by source line.
ReportLinePCs == {"r44", "r45", "r46", "r47", "r48", "r49"}

\* Mutant: random.uniform(0, 20).
DurationsFromZero == 0 .. (SleepHigh * Scale)

\* random.uniform(10, 20), in 1/Scale units.
Durations == (SleepLow * Scale) .. (SleepHigh * Scale)

\* int(sleep_duration): truncation toward zero of a nonnegative float.
IntOf(d) == d \div Scale

\* The daemon reporter thread runs only while the process lives: it is
\* started by main and dies with the interpreter when main returns.
ReporterAlive == mpc # "returned"

----------------------------------------------------------------------------
(* gial.py: the shared dictionary                                          *)

\* Lines 11-15.
InitStatus == [phase |-> NotStarted, running |-> TRUE, start_time |-> 0]

\* pipeline_status["phase"] = label (lines 63, 70, 94, 143).
SetPhase(label) == [pipeline_status EXCEPT !.phase = label]

\* Mutant: the finally block writes True.
SignalStopWritesTrue == [pipeline_status EXCEPT !.running = TRUE]

\* Line 161: pipeline_status["running"] = False.
SignalStop == [pipeline_status EXCEPT !.running = FALSE]


----------------------------------------------------------------------------
(* gial.py: main                                                           *)

reporterVars == <<rpc, sleep_duration, slept, broke, r_nap, shown_phase>>
mainHist == <<m_nap, failed, cleanup, script_invoked, success_logged,
             shutdowns>>

\* Mutant: the return leaves main at once, as it would outside a try/finally.
ReturnSkipsFinally == "returned"

\* A return (or the normal end) inside the try block of main runs the
\* finally block before main returns.
ReturnFromTry == "finally"

\* Lines 59-60: the reporter thread is created and started.
MStart ==
    /\ mpc = "start"
    /\ mpc' = "m63"
    /\ rpc' = "r27"
    /\ UNCHANGED appVars
    /\ UNCHANGED <<pipeline_status, sleep_duration, slept, broke, r_nap,
                   shown_phase, mainHist>>

\* Lines 63-67.
MInitialization ==
    /\ mpc = "m63"
    /\ pipeline_status' = SetPhase(Initialization)
    /\ mpc' = "m70"
    /\ UNCHANGED appVars
    /\ UNCHANGED <<reporterVars, mainHist>>

\* Lines 70-78.
MPhase1 ==
    /\ mpc = "m70"
    /\ pipeline_status' = SetPhase(EnvSetup)
    /\ mpc' = "m80"
    /\ UNCHANGED appVars
    /\ UNCHANGED <<reporterVars, mainHist>>

\* Lines 80-84 and 90-91: urlretrieve and getsize succeed.
MDownloadOk ==
    /\ mpc = "m80"
    /\ mpc' = "m94"
    /\ UNCHANGED appVars
    /\ UNCHANGED <<pipeline_status, reporterVars, mainHist>>

\* Mutant: the handler logs the failure and falls through (no return).
MDownloadFailNoReturn ==
    /\ mpc = "m80"
    /\ failed' = "download"
    /\ mpc' = "m94"
    /\ UNCHANGED appVars
    /\ UNCHANGED <<pipeline_status, reporterVars, m_nap, cleanup,
                   script_invoked, success_logged, shutdowns>>

\* Lines 85-88: any exception of the download is logged, then return.
MDownloadFail ==
    /\ mpc = "m80"
    /\ failed' = "download"
    /\ mpc' = ReturnFromTry
    /\ UNCHANGED appVars
    /\ UNCHANGED <<pipeline_status, reporterVars, m_nap, cleanup,
                   script_invoked, success_logged, shutdowns>>

\* Lines 94-101.
MPhase2 ==
    /\ mpc = "m94"
    /\ pipeline_status' = SetPhase(CoreExec)
    /\ mpc' = "m103"
    /\ UNCHANGED appVars
    /\ UNCHANGED <<reporterVars, mainHist>>

\* Lines 103-116 and 138-140: subprocess.run returns with exit code 0.
MExecOk ==
    /\ mpc = "m103"
    /\ script_invoked' = TRUE
    /\ mpc' = "m143"
    /\ UNCHANGED appVars
    /\ UNCHANGED <<pipeline_status, reporterVars, m_nap, failed, cleanup,
                   success_logged, shutdowns>>

\* Lines 118-121, 122-132, 133-136: subprocess.run raises; the handler
\* logs and returns.
MExecFail(kind) ==
    /\ mpc = "m103"
    /\ script_invoked' = TRUE
    /\ failed' = kind
    /\ mpc' = ReturnFromTry
    /\ UNCHANGED appVars
    /\ UNCHANGED <<pipeline_status, reporterVars, m_nap, cleanup,
                   success_logged, shutdowns>>

MExecFileNotFound == MExecFail("FileNotFoundError")
MExecCalledProcessError == MExecFail("CalledProcessError")
MExecOther == MExecFail("Exception")

\* Mutant: line 143 assigns the label of line 63.
MPhase3Restarts ==
    /\ mpc = "m143"
    /\ pipeline_status' = SetPhase(Initialization)
    /\ mpc' = "m148"
    /\ UNCHANGED appVars
    /\ UNCHANGED <<reporterVars, mainHist>>

\* Lines 143-147.
MPhase3 ==
    /\ mpc = "m143"
    /\ pipeline_status' = SetPhase(Finalizing)
    /\ mpc' = "m148"
    /\ UNCHANGED appVars
    /\ UNCHANGED <<reporterVars, mainHist>>

\* Lines 148-150: os.remove succeeds.
MCleanupOk ==
    /\ mpc = "m148"
    /\ cleanup' = "ok"
    /\ mpc' = "m154"
    /\ UNCHANGED appVars
    /\ UNCHANGED <<pipeline_status, reporterVars, m_nap, failed,
                   script_invoked, success_logged, shutdowns>>

\* Mutant: the OSError handler returns, as the fatal handlers do.
MCleanupWarnFatal ==
    /\ mpc = "m148"
    /\ cleanup' = "warn"
    /\ mpc' = ReturnFromTry
    /\ UNCHANGED appVars
    /\ UNCHANGED <<pipeline_status, reporterVars, m_nap, failed,
                   script_invoked, success_logged, shutdowns>>

\* Lines 151-152: os.remove raises OSError; a warning is logged.
MCleanupWarn ==
    /\ mpc = "m148"
    /\ cleanup' = "warn"
    /\ mpc' = "m154"
    /\ UNCHANGED appVars
    /\ UNCHANGED <<pipeline_status, reporterVars, m_nap, failed,
                   script_invoked, success_logged, shutdowns>>

\* Lines 154-156: the success message; the try block ends.
MFinish ==
    /\ mpc = "m154"
    /\ success_logged' = TRUE
    /\ mpc' = ReturnFromTry
    /\ UNCHANGED appVars
    /\ UNCHANGED <<pipeline_status, reporterVars, m_nap, failed, cleanup,
                   script_invoked, shutdowns>>

\* Line 161.
MSignalStop ==
    /\ mpc = "finally"
    /\ pipeline_status' = SignalStop
    /\ shutdowns' = shutdowns + 1
    /\ mpc' = "m163"
    /\ UNCHANGED appVars
    /\ UNCHANGED <<reporterVars, m_nap, failed, cleanup, script_invoked,
                   success_logged>>

\* Line 163: main enters time.sleep(2).
MGraceBegin ==
    /\ mpc = "m163"
    /\ m_nap' = GraceUnits
    /\ mpc' = "m163s"
    /\ UNCHANGED appVars
    /\ UNCHANGED <<pipeline_status, reporterVars, failed, cleanup,
                   script_invoked, success_logged, shutdowns>>

\* Line 163: the grace sleep returns, no earlier than after its two units;
\* main returns and the process exits.
MGraceEnd ==
    /\ mpc = "m163s"
    /\ m_nap = 0
    /\ mpc' = "returned"
    /\ UNCHANGED appVars
    /\ UNCHANGED <<pipeline_status, reporterVars, mainHist>>

Main ==
    \/ MStart
    \/ MInitialization
    \/ MPhase1
    \/ MDownloadOk
    \/ MDownloadFail
    \/ MPhase2
    \/ MExecOk
    \/ MExecFileNotFound
    \/ MExecCalledProcessError
    \/ MExecOther
    \/ MPhase3
    \/ MCleanupOk
    \/ MCleanupWarn
    \/ MFinish
    \/ MSignalStop
    \/ MGraceBegin
    \/ MGraceEnd

----------------------------------------------------------------------------
(* gial.py: status_reporter                                                *)

mainVars == <<mpc, mainHist>>

\* Line 27.
RInit ==
    /\ rpc = "r27" /\ ReporterAlive
    /\ rpc' = "r29"
    /\ UNCHANGED appVars
    /\ UNCHANGED <<pipeline_status, mainVars, shown_phase, sleep_duration,
                   slept, broke, r_nap>>

\* Line 29: the while condition.
RWhile ==
    /\ rpc = "r29" /\ ReporterAlive
    /\ rpc' = IF pipeline_status.running THEN "r32" ELSE "r51"
    /\ UNCHANGED appVars
    /\ UNCHANGED <<pipeline_status, mainVars, shown_phase, sleep_duration,
                   slept, broke, r_nap>>

\* Lines 32-33: the delay is sampled and range(int(sleep_duration)) built.
RSample ==
    /\ rpc = "r32" /\ ReporterAlive
    /\ \E d \in Durations : sleep_duration' = d
    /\ slept' = 0
    /\ rpc' = "r33"
    /\ UNCHANGED appVars
    /\ UNCHANGED <<pipeline_status, mainVars, shown_phase, broke, r_nap>>

\* Mutant: range(int(sleep_duration) + 1), one iteration too many.
RForOffByOne ==
    /\ rpc = "r33" /\ ReporterAlive
    /\ IF slept <= IntOf(sleep_duration)
       THEN IF pipeline_status.running
            THEN rpc' = "r36" /\ broke' = broke
            ELSE rpc' = "r39" /\ broke' = TRUE
       ELSE rpc' = "r39" /\ broke' = broke
    /\ UNCHANGED appVars
    /\ UNCHANGED <<pipeline_status, mainVars, shown_phase, sleep_duration,
                   slept, r_nap>>

\* Lines 33-35: the next iteration of the for loop, if any, and its check
\* of the running flag.
RFor ==
    /\ rpc = "r33" /\ ReporterAlive
    /\ IF slept < IntOf(sleep_duration)
       THEN IF pipeline_status.running
            THEN rpc' = "r36" /\ broke' = broke
            ELSE rpc' = "r39" /\ broke' = TRUE
       ELSE rpc' = "r39" /\ broke' = broke
    /\ UNCHANGED appVars
    /\ UNCHANGED <<pipeline_status, mainVars, shown_phase, sleep_duration,
                   slept, r_nap>>

\* Line 36: the reporter enters time.sleep(1).
RSleepBegin ==
    /\ rpc = "r36" /\ ReporterAlive
    /\ r_nap' = SleepUnit
    /\ rpc' = "r36s"
    /\ UNCHANGED appVars
    /\ UNCHANGED <<pipeline_status, mainVars, shown_phase, sleep_duration,
                   slept, broke>>

\* Line 36: time.sleep(1) returns, no earlier than after its unit.
RSleepEnd ==
    /\ rpc = "r36s" /\ ReporterAlive
    /\ r_nap = 0
    /\ slept' = slept + 1
    /\ rpc' = "r33"
    /\ UNCHANGED appVars
    /\ UNCHANGED <<pipeline_status, mainVars, shown_phase, sleep_duration,
                   broke, r_nap>>

\* Mutant: the report is generated after every wait, without line 39's check.
RIfAlwaysReports ==
    /\ rpc = "r39" /\ ReporterAlive
    /\ rpc' = "r40"
    /\ UNCHANGED appVars
    /\ UNCHANGED <<pipeline_status, mainVars, shown_phase, sleep_duration,
                   slept, broke, r_nap>>

\* Line 39.
RIf ==
    /\ rpc = "r39" /\ ReporterAlive
    /\ rpc' = IF pipeline_status.running THEN "r40" ELSE "r29"
    /\ UNCHANGED appVars
    /\ UNCHANGED <<pipeline_status, mainVars, shown_phase, sleep_duration,
                   slept, broke, r_nap>>

\* Mutant: the reporter restarts the elapsed-time clock after reading it.
RElapsedWritesStart ==
    /\ rpc = "r40" /\ ReporterAlive
    /\ rpc' = "r44"
    /\ pipeline_status' = [pipeline_status EXCEPT !.start_time = 1]
    /\ UNCHANGED appVars
    /\ UNCHANGED <<mainVars, shown_phase, sleep_duration, slept, broke,
                   r_nap>>

\* Lines 40-42: elapsed time and the two usage figures.
RElapsed ==
    /\ rpc = "r40" /\ ReporterAlive
    /\ rpc' = "r44"
    /\ UNCHANGED appVars
    /\ UNCHANGED <<pipeline_status, mainVars, shown_phase, sleep_duration,
                   slept, broke, r_nap>>

NextLine(pc) ==
    CASE pc = "r44" -> "r45"
      [] pc = "r45" -> "r46"
      [] pc = "r46" -> "r47"
      [] pc = "r47" -> "r48"
      [] pc = "r48" -> "r49"
      [] pc = "r49" -> "r29"

\* Mutant: the label is the one the dictionary was created with.
ReadPhaseStale == InitStatus.phase

\* Line 46: pipeline_status['phase'] as the f-string reads it, one
\* dictionary lookup that yields a reference to an immutable string.
ReadPhase == pipeline_status.phase

\* Lines 44-49: one log line of the report; line 46 shows the phase label,
\* line 49 ends the report.
RLine ==
    /\ rpc \in ReportLinePCs /\ ReporterAlive
    /\ rpc' = NextLine(rpc)
    /\ shown_phase' = CASE rpc = "r46" -> ReadPhase
                         [] rpc = "r49" -> "none"
                         [] OTHER -> shown_phase
    /\ UNCHANGED appVars
    /\ UNCHANGED <<pipeline_status, mainVars, sleep_duration, slept, broke,
                   r_nap>>

\* Line 51.
RExit ==
    /\ rpc = "r51" /\ ReporterAlive
    /\ rpc' = "stopped"
    /\ UNCHANGED appVars
    /\ UNCHANGED <<pipeline_status, mainVars, shown_phase, sleep_duration,
                   slept, broke, r_nap>>

Reporter ==
    \/ RInit
    \/ RWhile
    \/ RSample
    \/ RFor
    \/ RSleepBegin
    \/ RSleepEnd
    \/ RIf
    \/ RElapsed
    \/ RLine
    \/ RExit

----------------------------------------------------------------------------
(* gial.py: the specification                                              *)

GialInit ==
    /\ pipeline_status = InitStatus
    /\ mpc = "start"
    /\ rpc = "idle"
    /\ sleep_duration = 0
    /\ slept = 0
    /\ broke = FALSE
    /\ r_nap = 0
    /\ shown_phase = "none"
    /\ m_nap = 0
    /\ failed = "none"
    /\ cleanup = "none"
    /\ script_invoked = FALSE
    /\ success_logged = FALSE
    /\ shutdowns = 0

\* pipi.py is not running: its state stays as AppState.reset leaves it.
AppIdle ==
    /\ now = 0
    /\ last_report_time = 0
    /\ next_report_delay = FirstDelayLow
    /\ training_loss = FromTenths(InitLossLowTenths)
    /\ loss_history = [i \in 1..Capacity |-> FromTenths(InitLossLowTenths)]
    /\ epoch = 1
    /\ data_processed_gb = 0
    /\ pushed = <<>>
    /\ bars = <<>>
    /\ shown_loss = 0
    /\ last_call = "none"

Init == GialInit /\ AppIdle

\* One unit of time passes for every thread that is asleep.
Tick ==
    /\ r_nap > 0 \/ m_nap > 0
    /\ r_nap' = IF r_nap > 0 THEN r_nap - 1 ELSE 0
    /\ m_nap' = IF m_nap > 0 THEN m_nap - 1 ELSE 0
    /\ UNCHANGED appVars
    /\ UNCHANGED <<pipeline_status, mpc, rpc, sleep_duration, slept, broke,
                   shown_phase, failed, cleanup, script_invoked,
                   success_logged, shutdowns>>

Next == Main \/ Reporter \/ Tick

Spec == Init /\ [][Next]_vars

----------------------------------------------------------------------------
(* pipi.py: generate_report, the loss chart (lines 133-141)                *)
(*                                                                         *)
(* Samples are exact fixed-point numbers here; the code computes           *)
(* (loss / max_val) * chart_width in binary floating point, whose quotient *)
(* never exceeds 1.0 for 0 <= loss <= max_val.                             *)

\* ZeroDivisionError, as a value no bar length can have.
DivFault == -1

\* int(n / d): the quotient truncated toward zero; a fault when d is 0.
TruncDiv(n, d) ==
    IF d = 0 THEN DivFault
    ELSE IF n >= 0 THEN n \div d
    ELSE -((-n) \div d)

SeqMax(h) == CHOOSE m \in {h[i] : i \in 1..Len(h)} :
                 \A i \in 1..Len(h) : h[i] <= m

\* Line 135: max(state.loss_history) if state.loss_history else 1.
MaxVal(h) == IF Len(h) > 0 THEN SeqMax(h) ELSE 1

\* Mutant: the bar length without the max_val > 0 guard.
BarLengthUnguarded(loss, max_val) == TruncDiv(loss * chart_width, max_val)

\* Line 138.
BarLength(loss, max_val) ==
    IF max_val > 0 THEN TruncDiv(loss * chart_width, max_val) ELSE 0

\* Mutant: the bars drawn newest first.
BarLengthsNewestFirst(h) ==
    [i \in 1..Len(h) |-> BarLength(h[Len(h) - i + 1], MaxVal(h))]

\* Lines 137-140: one bar per sample, in list order.
BarLengths(h) == [i \in 1..Len(h) |-> BarLength(h[i], MaxVal(h))]

----------------------------------------------------------------------------
(* pipi.py: AppState                                                       *)

FirstDelays  == {FirstDelayLow, FirstDelayHigh}
InitLosses   == {FromTenths(InitLossLowTenths), FromTenths(InitLossHighTenths)}
DataSteps    == {DataLow, DataHigh}
Delays       == {DelayLow, DelayHigh}
DecayFactors == {DecayLowPct, DecayHighPct}
Resamples    == {FromTenths(ResampleLowTenths), FromTenths(ResampleHighTenths)}
LossFloor    == FromPct(FloorPct)


\* Mutant: the test of line 39 with >= for >.
DueInclusive(current_time) ==
    current_time - last_report_time >= next_report_delay

\* Line 39.
Due(current_time) == current_time - last_report_time > next_report_delay

\* Line 47: training_loss *= factor, the factor given in hundredths.
Decay(loss, f) == (loss * f) \div 100

\* Line 48: the decayed loss is below the floor.
Breach(decayed) == decayed < LossFloor

\* Mutant: the resampled loss is not divided by the epoch.
ResampleUnscaled(u, e) == u

\* Line 50: random.uniform(1.0, 1.5) / self.epoch, u the sampled number.
Resample(u, e) == u \div e

\* Lines 47-49: the epoch after the decay by factor f.
NextEpoch(loss, e, f) == IF Breach(Decay(loss, f)) THEN e + 1 ELSE e

\* Lines 47-50: the loss after the decay by factor f; u is the number
\* sampled for line 50, which divides by the incremented epoch.
NextLoss(loss, e, f, u) ==
    IF Breach(Decay(loss, f)) THEN Resample(u, e + 1) ELSE Decay(loss, f)

\* Mutant: pop() instead of pop(0): the newest sample is dropped.
PushDropsNewest(h, v) == Append(SubSeq(h, 1, Len(h) - 1), v)

\* Lines 53-54: pop(0), then append.
Push(h, v) == Append(Tail(h), v)

\* Mutant: the history starts as five zeros.
AppResetZeroHistory ==
    /\ now = 0
    /\ last_report_time = 0
    /\ next_report_delay \in FirstDelays
    /\ training_loss \in InitLosses
    /\ loss_history = [i \in 1..Capacity |-> 0]
    /\ epoch = 1
    /\ data_processed_gb = 0
    /\ pushed = <<>>
    /\ bars = <<>>
    /\ shown_loss = 0
    /\ last_call = "none"

\* Lines 27-34: AppState.reset at time 0.
AppReset ==
    /\ now = 0
    /\ last_report_time = 0
    /\ next_report_delay \in FirstDelays
    /\ training_loss \in InitLosses
    /\ loss_history = [i \in 1..Capacity |-> training_loss]
    /\ epoch = 1
    /\ data_processed_gb = 0
    /\ pushed = <<>>
    /\ bars = <<>>
    /\ shown_loss = 0
    /\ last_call = "none"

\* Lines 250-252: main's wait loop sleeps PollInterval seconds between
\* two calls of check_and_generate_report.
AppTick ==
    /\ now + PollInterval <= MaxTime
    /\ now' = now + PollInterval
    /\ last_call' = "none"
    /\ UNCHANGED <<appFields, pushed, bars, shown_loss>>
    /\ UNCHANGED gialVars

\* Lines 40-54, the branch of a due report, with generate_report's header
\* line (134), its chart (rendered from the history as it is before the
\* update) and its closing sleep.  g, nd, f and u are the numbers sampled
\* at lines 41, 44, 47 and 50.
FireReport(g, nd, f, u) ==
    /\ data_processed_gb' = data_processed_gb + g
    /\ shown_loss' = training_loss
    /\ bars' = BarLengths(loss_history)
    /\ last_report_time' = now
    /\ next_report_delay' = nd
    /\ epoch' = NextEpoch(training_loss, epoch, f)
    /\ training_loss' = NextLoss(training_loss, epoch, f, u)
    /\ loss_history' = Push(loss_history, training_loss')
    /\ pushed' = Append(pushed, training_loss')
    /\ now' = now + ReportPause
    /\ last_call' = "fired"

\* Mutant: line 41 is executed before the test of line 39.
SkipReportCountsData ==
    /\ last_call' = "skipped"
    /\ data_processed_gb' = data_processed_gb + DataLow
    /\ UNCHANGED <<now, last_report_time, next_report_delay, training_loss,
                   loss_history, epoch, pushed, bars, shown_loss>>

\* Lines 38-39, the test failing: the method returns.
SkipReport ==
    /\ last_call' = "skipped"
    /\ UNCHANGED <<now, appFields, pushed, bars, shown_loss>>

\* Lines 36-54: check_and_generate_report.
AppCheck ==
    /\ IF Due(now)
       THEN \E g \in DataSteps, nd \in Delays, f \in DecayFactors,
               u \in Resamples : FireReport(g, nd, f, u)
       ELSE SkipReport
    /\ UNCHANGED gialVars

AppInit == GialInit /\ AppReset

AppNext == AppTick \/ AppCheck

AppSpec == AppInit /\ [][AppNext]_vars

----------------------------------------------------------------------------
(* pipi.py: one AppState over arbitrarily many reports                     *)
(*                                                                         *)
(* AppState sets no limit to the number of calls of                        *)
(* check_and_generate_report.  EpochSpec follows the object from its reset *)
(* through as many reports as it takes the epoch to reach MaxEpoch.  The   *)
(* two quantities that grow without bound are kept finite: the clock is    *)
(* read relative to the latest report (the method uses only the difference *)
(* current_time - last_report_time), and data_processed_gb is counted up   *)
(* to MaxData.  The samples pushed are not recorded.                       *)

\* Lines 250-252: the caller sleeps PollInterval seconds between two calls,
\* until a report is due.
EpochTick ==
    /\ epoch < MaxEpoch
    /\ ~Due(now)
    /\ now' = now + PollInterval
    /\ last_call' = "none"
    /\ UNCHANGED <<appFields, pushed, bars, shown_loss>>
    /\ UNCHANGED gialVars

\* Lines 40-54 as in FireReport, the time of the call taken as the new
\* origin of the clock.
EpochFireReport(g, nd, f, u) ==
    /\ data_processed_gb' = IF data_processed_gb + g <= MaxData
                            THEN data_processed_gb + g ELSE MaxData
    /\ shown_loss' = training_loss
    /\ bars' = BarLengths(loss_history)
    /\ last_report_time' = 0
    /\ next_report_delay' = nd
    /\ epoch' = NextEpoch(training_loss, epoch, f)
    /\ training_loss' = NextLoss(training_loss, epoch, f, u)
    /\ loss_history' = Push(loss_history, training_loss')
    /\ pushed' = pushed
    /\ now' = ReportPause
    /\ last_call' = "fired"

\* Lines 36-54: check_and_generate_report.
EpochCheck ==
    /\ epoch < MaxEpoch
    /\ IF Due(now)
       THEN \E g \in DataSteps, nd \in Delays, f \in DecayFactors,
               u \in Resamples : EpochFireReport(g, nd, f, u)
       ELSE SkipReport
    /\ UNCHANGED gialVars

EpochNext == EpochTick \/ EpochCheck

EpochSpec == AppInit /\ [][EpochNext]_vars

----------------------------------------------------------------------------
(* pipi.py: the chart as a function of an arbitrary history                *)

Samples == 0 .. MaxSample

Histories == UNION {[1..n -> Samples] : n \in 0..Capacity}

\* The history 3.0, 3.0, 3.0, 3.0, 1.5 (oldest first), in tenths.
ScenarioHistory == <<30, 30, 30, 30, 15>>

ChartInit ==
    /\ GialInit
    /\ now = 0
    /\ last_report_time = 0
    /\ next_report_delay = FirstDelayLow
    /\ training_loss = 0
    /\ loss_history \in Histories \cup {ScenarioHistory}
    /\ epoch = 1
    /\ data_processed_gb = 0
    /\ pushed = <<>>
    /\ bars = <<>>
    /\ shown_loss = 0
    /\ last_call = "none"

\* Lines 135-140 applied to the history.
ChartRender ==
    /\ bars' = BarLengths(loss_history)
    /\ UNCHANGED <<now, appFields, pushed, shown_loss, last_call>>
    /\ UNCHANGED gialVars

ChartNext == ChartRender

ChartSpec == ChartInit /\ [][ChartNext]_vars

----------------------------------------------------------------------------
(* gial.py: properties                                                     *)

ShutdownPCs == {"finally", "m163", "m163s", "returned"}
ExecFailures == {"FileNotFoundError", "CalledProcessError", "Exception"}

\* C1: once main has written running = False, status_reporter emits none of
\* the six report lines (header, status, phase, elapsed, health, footer).
\* Stated as the claim states it; the code checks the flag at line 39 and
\* logs at lines 44-49 without checking it again.
C1_NoReportLineAfterStop ==
    [][~pipeline_status.running => ~(rpc \in ReportLinePCs /\ rpc' # rpc)]_vars

\* C2: running is True initially, its only write is main's shutdown write
\* (True to False, never False to True), and after that write it is False
\* in every state, so every later read returns False.
C2_RunningOnlyFalls ==
    /\ pipeline_status.running
    /\ [][pipeline_status.running' # pipeline_status.running
            => (mpc = "finally" /\ pipeline_status.running
                /\ ~pipeline_status.running')]_vars
    /\ [](shutdowns > 0 => ~pipeline_status.running)

\* C2 witness: the reporter has read the flag after the shutdown write and
\* left its loop.
C2_Witness ==
    /\ shutdowns = 1
    /\ ~pipeline_status.running
    /\ rpc = "r51"

\* C3: on every path through main the shutdown protocol (running = False,
\* then the grace sleep) runs exactly once and is the last thing main does:
\* main returns only from the grace sleep, which only follows the write.
C3_ShutdownExactlyOnce ==
    /\ [](/\ shutdowns <= 1
          /\ (mpc \in {"m163", "m163s", "returned"}) <=> (shutdowns = 1)
          /\ mpc = "returned" => ~pipeline_status.running)
    /\ [][(mpc' = "returned" /\ mpc # "returned")
            => (mpc = "m163s" /\ m_nap = 0)]_vars
    /\ [][(mpc' = "m163s" /\ mpc # "m163s")
            => (mpc = "m163" /\ m_nap' = GraceUnits)]_vars
    /\ [][(mpc' = "m163" /\ mpc # "m163")
            => (mpc = "finally" /\ ~pipeline_status.running')]_vars

\* C3 witness: main has returned along an execution-failure path.
C3_Witness ==
    /\ mpc = "returned"
    /\ failed = "CalledProcessError"
    /\ shutdowns = 1

\* C4: after the shutdown write the reporter reaches its terminal state
\* before the grace sleep ends and main returns.  Stated as the claim
\* states it; the code has no join, and neither sleep has an upper bound.
C4_ReporterStoppedWhenMainReturns ==
    mpc = "returned" => rpc = "stopped"

\* C5: every one-unit sleep is entered right after a check that found
\* running True; when that check finds running False the reporter sleeps
\* no more in that wait, emits no report for it, and the outer loop ends:
\* from then on it is only at line 39, 29 or 51, or done.
C5_BreakLeadsToStop ==
    /\ [][(rpc' = "r36" /\ rpc # "r36")
            => (rpc = "r33" /\ pipeline_status.running)]_vars
    /\ [][(rpc' = "r36s" /\ rpc # "r36s") => rpc = "r36"]_vars
    /\ [](broke => /\ rpc \in {"r39", "r29", "r51", "stopped"}
                   /\ ~pipeline_status.running)

\* C5 witness: the reporter left a wait by the break and has terminated.
C5_Witness ==
    /\ broke
    /\ slept < IntOf(sleep_duration)
    /\ rpc = "stopped"

\* C6 as stated: the reporter enters REPORTING only when the number of
\* one-unit sleeps has reached the sampled sleep_duration and running is
\* True at that instant.
C6_ReportOnlyAtSampledDelay ==
    [][(rpc = "r39" /\ rpc' = "r40")
         => (slept * Scale >= sleep_duration /\ pipeline_status.running)]_vars

\* C6 as amended: the reporter enters REPORTING only when the number of
\* one-unit sleeps equals int(sleep_duration), the sampled delay truncated
\* to whole units, and running is True at that instant.
C6_ReportOnlyAtTruncatedDelay ==
    [][(rpc = "r39" /\ rpc' = "r40")
         => (slept = IntOf(sleep_duration) /\ pipeline_status.running)]_vars

\* C6 witness: a report is under way after a wait of int(sleep_duration)
\* sleeps, where sleep_duration is not a whole number.
C6_Witness ==
    /\ rpc = "r44"
    /\ slept = IntOf(sleep_duration)
    /\ slept * Scale < sleep_duration

\* C7: after a download failure the phase label never becomes the Core
\* Process Execution or Finalizing label and the script is never executed;
\* after an execution failure the label never becomes Finalizing; in both
\* cases the success message is never logged and main is in its shutdown.
C7_NoPhaseAfterFailure ==
    /\ failed = "download"
         => /\ pipeline_status.phase \notin {CoreExec, Finalizing}
            /\ ~script_invoked
            /\ ~success_logged
            /\ mpc \in ShutdownPCs
    /\ failed \in ExecFailures
         => /\ pipeline_status.phase # Finalizing
            /\ ~success_logged
            /\ mpc \in ShutdownPCs

\* C7 witness: main has returned after a download failure.
C7_Witness ==
    /\ failed = "download"
    /\ mpc = "returned"

\* C8: an OSError of os.remove is not fatal: no failure is recorded, the
\* success message is logged before the shutdown protocol starts, and the
\* protocol then runs as it does when the removal succeeds.
C8_CleanupWarningNonFatal ==
    cleanup \in {"ok", "warn"}
      => /\ failed = "none"
         /\ mpc \in {"m154"} \cup ShutdownPCs
         /\ mpc \in ShutdownPCs => success_logged
         /\ mpc = "returned" => (shutdowns = 1 /\ ~pipeline_status.running)

\* C8 witness: main has returned after a cleanup warning.
C8_Witness ==
    /\ cleanup = "warn"
    /\ mpc = "returned"
    /\ success_logged

\* C14: no step of the reporter thread writes pipeline_status; phase and
\* running change only in steps of main; start_time keeps the value the
\* dictionary was created with.
C14_ReporterNeverWritesStatus ==
    /\ [](DOMAIN pipeline_status = {"phase", "running", "start_time"})
    /\ [](pipeline_status.start_time = InitStatus.start_time)
    /\ [][rpc' # rpc => pipeline_status' = pipeline_status]_vars
    /\ [][pipeline_status' # pipeline_status
            => (mpc' # mpc /\ UNCHANGED reporterVars)]_vars

\* C14 witness: the reporter is at the last line of a report, having read
\* phase, running and start_time, after main changed phase and running.
C14_Witness ==
    /\ rpc = "r49"
    /\ pipeline_status.phase # NotStarted
    /\ ~pipeline_status.running
    /\ pipeline_status.start_time = InitStatus.start_time

\* C15: the phase label shown by a report is one of the five labels, whole,
\* and is the value pipeline_status['phase'] had at the step that read it.
C15_ShownPhaseUntornAndCurrent ==
    /\ [](rpc \in {"r47", "r48", "r49"} => shown_phase \in PhaseLabels)
    /\ [](shown_phase \in PhaseLabels \cup {"none"})
    /\ [][shown_phase' # shown_phase
            => \/ (rpc = "r46" /\ shown_phase' = pipeline_status.phase)
               \/ (rpc = "r49" /\ shown_phase' = "none")]_vars
    /\ [][(rpc = "r46" /\ rpc' # rpc)
            => (shown_phase' = pipeline_status.phase)]_vars

\* C15 witness: the report under way shows the Core Process Execution
\* label, which was current when line 46 read it; main has moved on since.
C15_Witness ==
    /\ rpc = "r47"
    /\ shown_phase = CoreExec
    /\ pipeline_status.phase = Finalizing

\* C16: every report follows a wait of at least 10 and at most 20
\* consecutive one-unit sleeps, all of them done since the delay of this
\* wait was sampled and none cut short by a break; so no report is made
\* before the first full wait.
C16_ReportAfterTenToTwentySleeps ==
    rpc \in {"r40"} \cup ReportLinePCs
      => /\ slept \in SleepLow .. SleepHigh
         /\ sleep_duration \in Durations
         /\ r_nap = 0
         /\ ~broke

\* C16 witness: a report is under way after a wait of 20 sleeps.
C16_Witness ==
    /\ rpc = "r44"
    /\ slept = SleepHigh

PhaseRank(label) == CHOOSE i \in DOMAIN PhaseOrder : PhaseOrder[i] = label

\* C17: the phase label is always one of the five labels and changes only
\* to the next label of the order Not Started, Initialization, Environment
\* Setup, Core Process Execution, Finalizing: it never skips a label and
\* never goes back; the shutdown protocol leaves it as it is.
C17_PhaseOnlyMovesForward ==
    /\ [](pipeline_status.phase \in PhaseLabels)
    /\ [][pipeline_status'.phase # pipeline_status.phase
            => PhaseRank(pipeline_status'.phase)
                 = PhaseRank(pipeline_status.phase) + 1]_vars
    /\ [][(mpc \in ShutdownPCs)
            => (pipeline_status'.phase = pipeline_status.phase)]_vars

\* C17 witness: main has returned with the Finalizing label in place.
C17_Witness ==
    /\ mpc = "returned"
    /\ pipeline_status.phase = Finalizing
    /\ ~pipeline_status.running

----------------------------------------------------------------------------
(* pipi.py: properties                                                     *)

LastN(q, n) == SubSeq(q, Len(q) - n + 1, Len(q))

\* C9: loss_history always holds exactly 5 samples; each push drops the
\* sample at index 0 and appends the new one at the end; once 5 or more
\* samples have been pushed it is the last 5 pushed, in push order.
C9_HistoryIsFifoWindow ==
    /\ [](Len(loss_history) = Capacity)
    /\ [][pushed' # pushed
            => \E v \in {training_loss'} :
                 /\ pushed' = Append(pushed, v)
                 /\ loss_history' = Append(Tail(loss_history), v)]_vars
    /\ [](Len(pushed) >= Capacity => loss_history = LastN(pushed, Capacity))

\* C9 witness: more than 5 samples were pushed, not all equal.
C9_Witness ==
    /\ Len(pushed) > Capacity
    /\ loss_history = LastN(pushed, Capacity)
    /\ loss_history[1] # loss_history[Capacity]

\* C10: for a history of nonnegative samples every bar of the chart has a
\* length in 0 .. 40, none is a division fault, and when all samples are
\* zero every bar has length 0.
C10_BarsWithinWidth ==
    /\ \A i \in DOMAIN bars : bars[i] \in 0 .. chart_width
    /\ (\A i \in DOMAIN loss_history : loss_history[i] = 0)
         => \A i \in DOMAIN bars : bars[i] = 0

\* C10 witness: the chart of a full history of zeros has been rendered.
C10_Witness ==
    /\ Len(loss_history) = Capacity
    /\ \A i \in DOMAIN loss_history : loss_history[i] = 0
    /\ Len(bars) = Capacity

\* C11: the chart has one bar per sample, in list order (oldest first); for
\* a history whose maximum is positive the bar of sample s has length
\* floor((s / max) * 40), so a sample equal to the maximum gets exactly 40;
\* the history 3.0, 3.0, 3.0, 3.0, 1.5 is drawn as 40, 40, 40, 40, 20.
C11_OneBarPerSampleOldestFirst ==
    Len(bars) > 0
      => /\ Len(bars) = Len(loss_history)
         /\ LET m == SeqMax(loss_history)
            IN  m > 0
                  => \A i \in DOMAIN loss_history :
                       /\ bars[i] * m <= loss_history[i] * chart_width
                       /\ loss_history[i] * chart_width < (bars[i] + 1) * m
                       /\ loss_history[i] = m => bars[i] = chart_width
         /\ loss_history = ScenarioHistory
              => bars = <<chart_width, chart_width, chart_width, chart_width,
                          chart_width \div 2>>

\* C11 witness: the chart of 3.0, 3.0, 3.0, 3.0, 1.5 has been rendered.
C11_Witness ==
    /\ loss_history = ScenarioHistory
    /\ Len(bars) = Capacity
    /\ bars[Capacity] < bars[1]

\* C12: a call of check_and_generate_report emits a report exactly when
\* now - last_report_time > next_report_delay; a report sets
\* last_report_time to the time of its call and samples next_report_delay
\* anew from 25 .. 50, so the time of a report exceeds the time of the
\* report (or reset) before it by strictly more than the delay in force,
\* and a call made right after a report never fires.
C12_ReportExactlyWhenDue ==
    /\ [][Len(pushed') # Len(pushed)
            => /\ last_call' = "fired"
               /\ now - last_report_time > next_report_delay
               /\ last_report_time' = now
               /\ last_report_time' - last_report_time > next_report_delay
               /\ next_report_delay' \in DelayLow .. DelayHigh]_vars
    /\ [][last_call' = "fired" => Len(pushed') = Len(pushed) + 1]_vars
    /\ [][last_call' = "skipped"
            => now - last_report_time <= next_report_delay]_vars
    /\ [][last_call = "fired" => last_call' # "fired"]_vars

\* C12 witness: a second report has just fired.
C12_Witness ==
    /\ Len(pushed) = 2
    /\ last_call = "fired"
    /\ last_report_time > DelayLow

\* C18: a call of check_and_generate_report that is not due changes no
\* field of the AppState and emits no report.
C18_SkippedCallChangesNothing ==
    [][(last_call' # "none" /\ now - last_report_time <= next_report_delay)
         => /\ last_call' = "skipped"
            /\ UNCHANGED appFields
            /\ UNCHANGED <<pushed, bars, shown_loss>>]_vars

\* C18 witness: a call was skipped at the very instant its delay ran out.
C18_Witness ==
    /\ last_call = "skipped"
    /\ now - last_report_time = next_report_delay
    /\ now > 0

\* C19: the newest sample of loss_history is training_loss after the
\* reset and after every call; a report pushes exactly one sample, and it
\* does so after rendering: its "Current Loss" is the sample of its last
\* bar, which the push then moves to the second newest place.
C19_NewestSampleIsTrainingLoss ==
    /\ [](loss_history[Len(loss_history)] = training_loss)
    /\ [](Len(pushed) > 0 => shown_loss = loss_history[Capacity - 1])
    /\ [][last_call' = "fired"
            => /\ Len(pushed') = Len(pushed) + 1
               /\ shown_loss' = loss_history[Capacity]
               /\ Len(bars') = Capacity
               /\ LET m == SeqMax(loss_history)
                  IN  /\ bars'[Capacity] * m
                          <= loss_history[Capacity] * chart_width
                      /\ loss_history[Capacity] * chart_width
                          < (bars'[Capacity] + 1) * m]_vars

\* C19 witness: a report showed a loss that the update then lowered.
C19_Witness ==
    /\ last_call = "fired"
    /\ Len(pushed) > 1
    /\ shown_loss = loss_history[Capacity - 1]
    /\ training_loss < shown_loss

\* C13: epoch is 1 after the reset and never decreases; it changes only in
\* a fired report, by exactly +1, and exactly when the decayed loss is
\* below the floor 0.05; the loss is then resampled into
\* [1.0 / epoch, 1.5 / epoch] for the incremented epoch.  A report that
\* leaves the epoch alone stores a decayed loss that is not below the floor.
C13_EpochStepsOnBreach ==
    /\ epoch = 1
    /\ [](epoch >= 1)
    /\ [][epoch' # epoch
            => /\ last_call' = "fired"
               /\ epoch' = epoch + 1
               /\ \E f \in DecayFactors :
                    (training_loss * f) \div 100 < LossFloor
               /\ training_loss' * epoch' <= FromTenths(ResampleHighTenths)
               /\ (training_loss' + 1) * epoch'
                    > FromTenths(ResampleLowTenths)]_vars
    /\ [][(last_call' = "fired" /\ epoch' = epoch)
            => /\ training_loss' >= LossFloor
               /\ \E f \in DecayFactors :
                    training_loss' = (training_loss * f) \div 100]_vars

\* C13 witness: a report has just moved the epoch from 1 to 2 and resampled
\* the loss into [0.5, 0.75].
C13_Witness ==
    /\ epoch = 2
    /\ last_call = "fired"
    /\ training_loss > shown_loss
    /\ training_loss * 2 >= FromTenths(ResampleLowTenths)
    /\ training_loss * 2 <= FromTenths(ResampleHighTenths)

\* C20: after every call training_loss is at least the floor 0.05, for
\* every epoch, and so is every sample of loss_history.  Stated as the
\* claim states it; line 50 divides a number from [1.0, 1.5] by the epoch,
\* which gives less than 0.05 from epoch 21 on.
C20_LossNeverBelowFloor ==
    /\ training_loss >= LossFloor
    /\ \A i \in DOMAIN loss_history : loss_history[i] >= LossFloor

=============================================================================
